---- MODULE Spec2Model ----
(***************************************************************************)
(* The analyze-content edge function (supabase/functions/analyze-content): *)
(* one request handler that authenticates the caller, reads feedback,      *)
(* searches for evidence with failover credentials (text), calls the model *)
(* gateway, extracts a verdict from the model's free text and inserts an   *)
(* analysis_results row.  Every await of the handler is one step; the      *)
(* answer of the external service is the step's input.  One request is     *)
(* followed from its arrival to its response, starting from an empty        *)
(* table.  An external call can answer, answer with an error, or throw;     *)
(* reading the body of a response that has arrived does not fail, decoding  *)
(* it can.  Further specifications at the end follow two requests          *)
(* interleaved at their awaits (ConcSpec), text requests against a search   *)
(* provider that always answers 200 (BadBodySpec), the consumers of a       *)
(* stored score (DashSpec) and the DetectionCard component (CardSpec).      *)
(***************************************************************************)
EXTENDS Integers, Sequences, FiniteSets, TLC

VARIABLES
  env,               \* Deno.env: which secrets are configured
  pc,                \* the await the handler is suspended at
  req,               \* the request being handled
  user,              \* user.id resolved by supabase.auth.getUser
  feedbackLearnings, \* advisory text: "" or a block
  feedbackRes,       \* whether the user_feedback query gave rows to learn from
  model,             \* model identifier sent to the gateway
  i,                 \* index of the failover loop (0-based, as in the code)
  searchResults,     \* let searchResults
  searchSuccess,     \* let searchSuccess
  apiKeyUsed,        \* the handler-level let apiKeyUsed (0 = undefined)
  textApiKeyUsed,    \* the let apiKeyUsed declared inside the switch block
  searchLog,         \* every search call sent, in order, with its outcome
  prompt,            \* the messages built for the gateway
  calls,             \* number of identity, feedback and gateway calls made
  authRes,           \* what the identity service answered
  gw,                \* what the model gateway answered
  aiResponse,        \* data.choices[0].message.content
  result,            \* let result
  inserts,           \* every row handed to analysis_results.insert
  insertRes,         \* what the store answered
  records,           \* the analysis_results table
  response,          \* the HTTP response returned
  peer,              \* the locals of a second request suspended at an await
  dash,              \* Dashboard: a stored score and what the views make of it
  card               \* DetectionCard: its useState cells and the pending onAnalyze

\* the locals of one run of the handler (its closure)
locals == <<pc, req, user, feedbackLearnings, feedbackRes, model, i, searchResults,
            searchSuccess, apiKeyUsed, textApiKeyUsed, searchLog, prompt, calls,
            authRes, gw, aiResponse, result, inserts, insertRes, response>>

vars == <<env, pc, req, user, feedbackLearnings, feedbackRes, model, i, searchResults,
          searchSuccess, apiKeyUsed, textApiKeyUsed, searchLog, prompt, calls,
          authRes, gw, aiResponse, result, inserts, insertRes, records,
          response, peer, dash, card>>

-----------------------------------------------------------------------------
(* Bounds of the model *)

\* longest model output, in tokens
MaxTextLen == 3
\* most items in one search result set
MaxResults == 1

(* Program constants *)

maxVideoSize == 2000000
FallbackScore == 50
PreviewLen == 200

-----------------------------------------------------------------------------
(* JSON values the handler reads without validating them *)

IntV(n) == [k |-> "int", v |-> n]
Missing == [k |-> "missing", v |-> 0]
\* a number that is not an integer (72.5)
Frac == [k |-> "frac", v |-> 72]

ScoreVals == {IntV(n) : n \in {-1, 0, 40, 65, 66, 100, 101}} \cup {Missing, Frac}
StatusVals == {"authentic", "suspicious", "fake", "missing"}
FieldVals == [authenticity : ScoreVals, status : StatusVals]
NoFields == [authenticity |-> Missing, status |-> "missing"]

Users == {"u1", "u2"}
NoUser == "none"
ContentTypes == {"text", "image", "audio", "video"}

Absent == [k |-> "absent", len |-> 0]
Str(n) == [k |-> "str", len |-> n]
ContentVals == {Absent, Str(0), Str(100), Str(600)}

\* fileData: absent, a JSON value that is not a string, or a string with
\* `pre` characters before its first comma and `b64` after it
NoFile == [k |-> "absent", comma |-> FALSE, pre |-> 0, b64 |-> 0]
NonStringFile == [k |-> "nonstring", comma |-> FALSE, pre |-> 0, b64 |-> 0]
DataUri(n) == [k |-> "str", comma |-> TRUE, pre |-> 21, b64 |-> n]
BareBase64(n) == [k |-> "str", comma |-> FALSE, pre |-> n, b64 |-> 0]
SmallFiles == {NoFile, NonStringFile, DataUri(1000)}
VideoFiles == SmallFiles \cup {DataUri(2666666), DataUri(2666667), BareBase64(2666667)}

Min(a, b) == IF a < b THEN a ELSE b

-----------------------------------------------------------------------------
(* The model's free text, as a sequence of tokens:                          *)
(*   "{" and "}"  the two brace characters,                                  *)
(*   "f"          the members "authenticity":..,"status":..,"details":..     *)
(*   "w"          any run of other characters (prose)                        *)
(* A "{" inside an object stands for a member whose value is an object.      *)

Tokens == {"{", "}", "f", "w"}
Texts == UNION {[1..n -> Tokens] : n \in 0..MaxTextLen}

FirstIndex(t, c) ==
  IF \E j \in 1..Len(t) : t[j] = c
  THEN CHOOSE j \in 1..Len(t) : t[j] = c /\ \A h \in 1..(j-1) : t[h] # c
  ELSE 0

LastIndex(t, c) ==
  IF \E j \in 1..Len(t) : t[j] = c
  THEN CHOOSE j \in 1..Len(t) : t[j] = c /\ \A h \in (j+1)..Len(t) : t[h] # c
  ELSE 0

\* aiResponse.match(/\{[\s\S]*\}/): leftmost "{", then greedily to the last "}";
\* <<>> when there is no match
JsonMatch(t) ==
  LET a == FirstIndex(t, "{")
      b == LastIndex(t, "}")
  IN IF a > 0 /\ b > a THEN SubSeq(t, a, b) ELSE <<>>

\* nesting depth after the first n tokens of c
Depth(c, n) ==
  Cardinality({j \in 1..n : c[j] = "{"}) - Cardinality({j \in 1..n : c[j] = "}"})

\* JSON.parse(c) does not throw: one object, braces balanced, no prose in it
JsonValid(c) ==
  /\ Len(c) >= 2
  /\ c[1] = "{"
  /\ \A j \in 1..Len(c) : c[j] # "w"
  /\ \A n \in 1..(Len(c) - 1) : Depth(c, n) >= 1
  /\ Depth(c, Len(c)) = 0

\* the decoded object has the verdict members at its top level
HasTopLevelFields(c) == \E j \in 1..Len(c) : c[j] = "f" /\ Depth(c, j) = 1

\* the text is decoded to an object by the extraction step
Decodable(t) == JsonMatch(t) # <<>> /\ JsonValid(JsonMatch(t))

StrContent(t) == [k |-> "str", text |-> t]
NullContent == [k |-> "null", text |-> <<>>]

\* values of a details member
RawDetails(ai) == [k |-> IF ai.k = "str" THEN "raw" ELSE "null", text |-> ai.text]
ModelDetails == [k |-> "model", text |-> <<>>]
NoDetails == [k |-> "missing", text |-> <<>>]
OversizeRecordDetails == [k |-> "oversizeRecord", text |-> <<>>]
OversizeResponseDetails == [k |-> "oversizeResponse", text |-> <<>>]
ErrorDetails == [k |-> "errorFixed", text |-> <<>>]

\* the fallback object of the extraction step
Fallback(ai) ==
  [authenticity |-> IntV(FallbackScore), status |-> "suspicious", details |-> RawDetails(ai)]

\* JSON.parse(jsonMatch[0]) of a valid candidate whose verdict members are f
Decode(c, f) ==
  IF HasTopLevelFields(c)
  THEN [authenticity |-> f.authenticity, status |-> f.status, details |-> ModelDetails]
  ELSE [authenticity |-> Missing, status |-> "missing", details |-> NoDetails]

\* ExtractVerdict without the catch around JSON.parse: result stays undefined
ExtractVerdictUncaught(ai, f) ==
  IF ai.k # "str" THEN Fallback(ai)
  ELSE IF JsonMatch(ai.text) = <<>> THEN Fallback(ai)
  ELSE IF JsonValid(JsonMatch(ai.text)) THEN Decode(JsonMatch(ai.text), f)
  ELSE [authenticity |-> Missing, status |-> "missing", details |-> NoDetails]

\* "Parse JSON response": a missing match, a throwing match (content that is
\* not a string) and a throwing JSON.parse all give the fallback
ExtractVerdict(ai, f) ==
  IF ai.k # "str" THEN Fallback(ai)
  ELSE IF JsonMatch(ai.text) = <<>> THEN Fallback(ai)
  ELSE IF JsonValid(JsonMatch(ai.text)) THEN Decode(JsonMatch(ai.text), f)
  ELSE Fallback(ai)

-----------------------------------------------------------------------------
(* The analysis_results table and the rows handed to it *)

NoId == 0

\* CREATE TABLE analysis_results: content_type is the enum, authenticity_score
\* is an integer NOT NULL with CHECK 0..100, detailed_analysis is NOT NULL
StoreAccepts(row) ==
  /\ row.content_type \in ContentTypes
  /\ row.authenticity_score.k = "int"
  /\ row.authenticity_score.v >= 0
  /\ row.authenticity_score.v <= 100
  /\ row.detailed_analysis.k \notin {"missing", "null"}

\* ContentPreview that stores the whole content
ContentPreviewUncut(r) ==
  IF r.contentType = "text" /\ r.content.k = "str" /\ r.content.len > 0
  THEN [k |-> "text", len |-> r.content.len]
  ELSE [k |-> "placeholder", len |-> 0]

\* const contentPreview = contentType === 'text' && content ? content.substring(0, 200) : `${contentType} analysis`
ContentPreview(r) ==
  IF r.contentType = "text" /\ r.content.k = "str" /\ r.content.len > 0
  THEN [k |-> "text", len |-> Min(r.content.len, PreviewLen)]
  ELSE [k |-> "placeholder", len |-> 0]

OversizePreview == [k |-> "oversize", len |-> 0]

\* AnalysisRow that leaves the owner of the row unset
AnalysisRowNoUser(r, u, res) ==
  [user_id |-> NoUser,
   content_type |-> r.contentType,
   authenticity_score |-> res.authenticity,
   detailed_analysis |-> res.details,
   content_preview |-> ContentPreview(r)]

\* the row of "Save analysis to database"
AnalysisRow(r, u, res) ==
  [user_id |-> u,
   content_type |-> r.contentType,
   authenticity_score |-> res.authenticity,
   detailed_analysis |-> res.details,
   content_preview |-> ContentPreview(r)]

\* the fixed row of the oversize video branch
OversizeRow(r, u) ==
  [user_id |-> u,
   content_type |-> r.contentType,
   authenticity_score |-> IntV(FallbackScore),
   detailed_analysis |-> OversizeRecordDetails,
   content_preview |-> OversizePreview]

\* what insert(...).select('id').single() can answer for a row
InsertOutcomes(row) ==
  IF StoreAccepts(row) THEN {"ok", "error", "throw"} ELSE {"error", "throw"}

-----------------------------------------------------------------------------
(* HTTP responses *)

NoResponse ==
  [status |-> 0, kind |-> "none", error |-> "", authenticity |-> Missing,
   st |-> "missing", details |-> NoDetails, analysisId |-> NoId, apiKeyUsed |-> 0]

\* new Response(null, { headers: corsHeaders })
PreflightResponse == [NoResponse EXCEPT !.status = 200, !.kind = "preflight"]

\* { error: msg } with a status
ErrorOnly(code, msg) == [NoResponse EXCEPT !.status = code, !.kind = "error", !.error = msg]

\* Caught that returns the message alone
CaughtMessageOnly(msg) == [NoResponse EXCEPT !.status = 500, !.kind = "caught", !.error = msg]

\* the body of the outer catch
Caught(msg) ==
  [NoResponse EXCEPT !.status = 500, !.kind = "caught", !.error = msg,
                     !.authenticity = IntV(0), !.st = "error", !.details = ErrorDetails]

\* const responseData = { ...result, analysisId }, apiKeyUsed added for text
\* when the handler-level apiKeyUsed is defined
VerdictResponse(r, res, id, key) ==
  [NoResponse EXCEPT !.status = 200, !.kind = "verdict",
                     !.authenticity = res.authenticity, !.st = res.status,
                     !.details = res.details, !.analysisId = id,
                     !.apiKeyUsed = IF r.contentType = "text" /\ key # 0 THEN key ELSE 0]

\* the fixed body of the oversize video branch
OversizeResponse(id) ==
  [NoResponse EXCEPT !.status = 200, !.kind = "verdict",
                     !.authenticity = IntV(FallbackScore), !.st = "suspicious",
                     !.details = OversizeResponseDetails, !.analysisId = id]

\* GatewayFailure without the 402 branch
GatewayFailureNo402(status, errorText) ==
  IF status = 429 THEN ErrorOnly(429, "Rate limit exceeded. Please try again later.")
  ELSE Caught("AI Gateway error: " \o errorText)

\* GatewayFailure that hands the upstream status on to the caller
GatewayFailurePassThrough(status, errorText) ==
  ErrorOnly(status, "AI Gateway error: " \o errorText)

\* "AI Gateway error" branch: the answer to a non-success upstream status whose
\* body text is errorText.  throw new Error(`AI Gateway error: ${errorText}`)
\* reaches the outer catch, whose body carries error.message
GatewayFailure(status, errorText) ==
  IF status = 429 THEN ErrorOnly(429, "Rate limit exceeded. Please try again later.")
  ELSE IF status = 402 THEN ErrorOnly(402, "Credits depleted. Please add more credits to continue.")
  ELSE Caught("AI Gateway error: " \o errorText)

-----------------------------------------------------------------------------
(* Requests and the answers of the external services *)

\* fields the handler never reads for a content type are held absent
Post(ct, c, f, h) ==
  [method |-> "POST", bodyOk |-> TRUE, contentType |-> ct, content |-> c,
   fileData |-> f, hasAuth |-> h]

Requests ==
  {[method |-> "OPTIONS", bodyOk |-> TRUE, contentType |-> "other", content |-> Absent,
    fileData |-> NoFile, hasAuth |-> FALSE]}
  \cup {[method |-> "POST", bodyOk |-> FALSE, contentType |-> "other", content |-> Absent,
         fileData |-> NoFile, hasAuth |-> h] : h \in BOOLEAN}
  \cup {Post("text", c, NoFile, h) : c \in ContentVals, h \in BOOLEAN}
  \cup {Post(ct, Absent, f, h) : ct \in {"image", "audio"}, f \in SmallFiles, h \in BOOLEAN}
  \cup {Post("video", Absent, f, h) : f \in VideoFiles, h \in BOOLEAN}
  \cup {Post("other", Absent, NoFile, h) : h \in BOOLEAN}

NoRequest ==
  [method |-> "none", bodyOk |-> TRUE, contentType |-> "other", content |-> Absent,
   fileData |-> NoFile, hasAuth |-> FALSE]

NoAnswer == [k |-> "none", threw |-> FALSE, error |-> FALSE, user |-> NoUser]

\* supabase.auth.getUser(token): { data: { user }, error }, or an exception
AuthOutcomes ==
  {[k |-> "answered", threw |-> FALSE, error |-> e, user |-> u] :
      e \in BOOLEAN, u \in Users \cup {NoUser}}
  \cup {[k |-> "answered", threw |-> TRUE, error |-> FALSE, user |-> NoUser]}

\* the user_feedback query: an error, no rows, rows, or an exception
FeedbackOutcomes == {"error", "empty", "rows", "throw"}

EmptyResults == [array |-> TRUE, items |-> <<>>]
\* a results member that is not a list of objects
MalformedResults == [array |-> FALSE, items |-> <<>>]
ResultSet(key, n) == [array |-> TRUE, items |-> [j \in 1..n |-> [src |-> key, n |-> j]]]

\* one search call made with credential `key`
SearchOutcomes(key) ==
  {[kind |-> "ok", results |-> ResultSet(key, n)] : n \in 0..MaxResults}
  \cup {[kind |-> "ok", results |-> MalformedResults]}
  \cup {[kind |-> k, results |-> EmptyResults] : k \in {"okBadBody", "status", "throw"}}

FailureStatuses == {402, 429, 500, 503}

\* await response.text() of a non-success answer: the upstream's diagnostic
ErrorTexts == {"upstream diagnostic A", "upstream diagnostic B"}

GwOutcome(kind, status, content, f) ==
  [kind |-> kind, status |-> status, content |-> content, fields |-> f, errorText |-> ""]

\* the verdict members matter only when the text decodes to an object having them
FieldsOf(t) ==
  IF Decodable(t) /\ HasTopLevelFields(JsonMatch(t)) THEN FieldVals ELSE {NoFields}

\* one call of the model gateway: a transport error, a non-success status, a
\* success whose body is not the expected envelope, or a success with content
GatewayOutcomes ==
  {GwOutcome("throw", 0, NullContent, NoFields)}
  \cup {[GwOutcome("status", s, NullContent, NoFields) EXCEPT !.errorText = t] :
           s \in FailureStatuses, t \in ErrorTexts}
  \cup {GwOutcome(k, 200, NullContent, NoFields) : k \in {"okNotJson", "okNoChoices"}}
  \cup {GwOutcome("ok", 200, NullContent, NoFields)}
  \cup UNION {{GwOutcome("ok", 200, StrContent(t), f) : f \in FieldsOf(t)} : t \in Texts}

NoGateway == [kind |-> "none", status |-> 0, errorText |-> ""]
NoResult == [authenticity |-> Missing, status |-> "missing", details |-> NoDetails]
NoPrompt == [built |-> FALSE, evidence |-> <<>>]

-----------------------------------------------------------------------------
(* The handler *)

HardcodedKeys == 3

\* search1ApiKeys = [SEARCH1API_KEY, three literals].filter(Boolean)
NumKeys == HardcodedKeys + (IF env.search1Key THEN 1 ELSE 0)

\* the handler before a request has arrived, on an empty table
HandlerInit ==
  /\ env \in [lovableKey : BOOLEAN, search1Key : BOOLEAN]
  /\ pc = "idle"
  /\ req = NoRequest
  /\ user = NoUser
  /\ feedbackLearnings = ""
  /\ feedbackRes = "none"
  /\ model = "google/gemini-2.5-flash"
  /\ i = 0
  /\ searchResults = EmptyResults
  /\ searchSuccess = FALSE
  /\ apiKeyUsed = 0
  /\ textApiKeyUsed = 0
  /\ searchLog = <<>>
  /\ prompt = NoPrompt
  /\ calls = [auth |-> 0, feedback |-> 0, model |-> 0]
  /\ authRes = NoAnswer
  /\ gw = NoGateway
  /\ aiResponse = NullContent
  /\ result = NoResult
  /\ inserts = <<>>
  /\ insertRes = "none"
  /\ records = <<>>
  /\ response = NoResponse

\* no second request, no Dashboard, no DetectionCard
NoPeer == <<>>
NoDash == [score |-> 0, loaded |-> FALSE, scoreFilter |-> "all", listed |-> FALSE,
           badge |-> "none", label |-> "none"]
NoCardResult == [k |-> "null", authenticity |-> 0, status |-> "none"]
NoCard == [contentType |-> "none", showTextInput |-> FALSE, file |-> FALSE, textInput |-> "",
           analyzing |-> FALSE, result |-> NoCardResult, inFlight |-> 0]

Init ==
  /\ HandlerInit
  /\ peer = NoPeer
  /\ dash = NoDash
  /\ card = NoCard

\* return a response
Respond(r) == response' = r /\ pc' = "done"

\* Receive with the header check placed before the configuration check
ReceiveHeaderFirst(r) ==
  /\ pc = "idle"
  /\ req' = r
  /\ IF r.method = "OPTIONS" THEN Respond(PreflightResponse) /\ UNCHANGED calls
     ELSE IF ~r.bodyOk THEN Respond(Caught("body")) /\ UNCHANGED calls
     ELSE IF ~r.hasAuth
          THEN Respond(ErrorOnly(401, "Authentication required")) /\ UNCHANGED calls
     ELSE IF ~env.lovableKey
          THEN Respond(Caught("LOVABLE_API_KEY is not configured")) /\ UNCHANGED calls
     ELSE /\ pc' = "auth"
          /\ calls' = [calls EXCEPT !.auth = @ + 1]
          /\ UNCHANGED response
  /\ UNCHANGED <<env, feedbackRes, user, feedbackLearnings, model, i, searchResults,
                 searchSuccess, apiKeyUsed, textApiKeyUsed, searchLog, prompt, authRes, gw,
                 aiResponse, result, inserts, insertRes, records>>

\* The request arrives: preflight, body decoding, configuration check, header
\* check, and the call of the identity service
Receive(r) ==
  /\ pc = "idle"
  /\ req' = r
  /\ IF r.method = "OPTIONS" THEN Respond(PreflightResponse) /\ UNCHANGED calls
     ELSE IF ~r.bodyOk THEN Respond(Caught("body")) /\ UNCHANGED calls
     ELSE IF ~env.lovableKey
          THEN Respond(Caught("LOVABLE_API_KEY is not configured")) /\ UNCHANGED calls
     ELSE IF ~r.hasAuth
          THEN Respond(ErrorOnly(401, "Authentication required")) /\ UNCHANGED calls
     ELSE /\ pc' = "auth"
          /\ calls' = [calls EXCEPT !.auth = @ + 1]
          /\ UNCHANGED response
  /\ UNCHANGED <<env, feedbackRes, user, feedbackLearnings, model, i, searchResults, searchSuccess,
                 apiKeyUsed, textApiKeyUsed, searchLog, prompt, authRes, gw, aiResponse,
                 result, inserts, insertRes, records>>

\* AuthRejected without the !user test
AuthRejectedErrorOnly(o) == o.error

\* if (authError || !user)
AuthRejected(o) == o.error \/ o.user = NoUser

\* The identity service answers; on success the feedback query is sent
AuthReply(o) ==
  /\ pc = "auth"
  /\ authRes' = o
  /\ IF o.threw THEN Respond(Caught("getUser")) /\ UNCHANGED <<user, calls>>
     ELSE IF AuthRejected(o)
          THEN Respond(ErrorOnly(401, "Invalid authentication")) /\ UNCHANGED <<user, calls>>
     ELSE /\ user' = o.user
          /\ pc' = "feedback"
          /\ calls' = [calls EXCEPT !.feedback = @ + 1]
          /\ UNCHANGED response
  /\ UNCHANGED <<env, feedbackRes, req, feedbackLearnings, model, i, searchResults, searchSuccess,
                 apiKeyUsed, textApiKeyUsed, searchLog, prompt, gw, aiResponse,
                 result, inserts, insertRes, records>>

\* getFeedbackLearnings that lets a query error through as advice
GetFeedbackLearningsErrorAsRows(o) ==
  IF o \in {"rows", "error"} THEN "LEARN FROM PAST MISTAKES" ELSE ""

\* getFeedbackLearnings: '' on an error, on no rows and on an exception
GetFeedbackLearnings(o) == IF o = "rows" THEN "LEARN FROM PAST MISTAKES" ELSE ""

\* fileData.split(',')[1] || fileData
Base64Length(f) == IF f.comma /\ f.b64 > 0 THEN f.b64 ELSE f.pre + (IF f.comma THEN 1 ELSE 0)

\* Math.ceil(length * 0.75)
EstimatedSize(f) == (3 * Base64Length(f) + 3) \div 4

\* Oversize that also short-circuits at the limit itself
OversizeAtLimit(f) == EstimatedSize(f) >= maxVideoSize

\* if (videoSizeBytes > maxVideoSize)
Oversize(f) == EstimatedSize(f) > maxVideoSize

\* CallGateway that sends the default model whatever the case chose
CallGatewayDefaultModel(m, evidence) ==
  /\ pc' = "model"
  /\ model' = model
  /\ prompt' = [built |-> TRUE, evidence |-> evidence]
  /\ calls' = [calls EXCEPT !.model = @ + 1]
  /\ UNCHANGED response

\* fetch of the gateway with the messages built
CallGateway(m, evidence) ==
  /\ pc' = "model"
  /\ model' = m
  /\ prompt' = [built |-> TRUE, evidence |-> evidence]
  /\ calls' = [calls EXCEPT !.model = @ + 1]
  /\ UNCHANGED response

\* the code after the failover loop: if (!searchSuccess) throw; then the prompt,
\* whose searchResults.map(...) throws on results that are no list of objects
AfterLoop(success, results) ==
  IF ~success
  THEN /\ Respond(Caught("Failed to verify article - all API keys exhausted"))
       /\ UNCHANGED <<model, prompt, calls>>
  ELSE IF ~results.array
  THEN /\ Respond(Caught("TypeError"))
       /\ UNCHANGED <<model, prompt, calls>>
  ELSE CallGateway(model, results.items)

\* the head of the failover loop at index j.  content.substring(0, 500) is
\* evaluated inside the try of every iteration: content that is no string
\* throws there, before fetch is called, and the loop goes on to its end.
ContinueLoop(j, success, results, log) ==
  IF j < NumKeys /\ req.content.k = "str"
  THEN /\ pc' = "search"
       /\ i' = j
       /\ searchLog' = Append(log, [key |-> j + 1, res |-> "pending", results |-> EmptyResults])
       /\ UNCHANGED <<model, prompt, calls, response>>
  ELSE /\ i' = NumKeys
       /\ searchLog' = log
       /\ AfterLoop(success, results)

\* NeedsEvidence with the image case falling into the search as well
NeedsEvidenceImageToo(ct) == ct \in {"text", "image"}

\* case 'text': the only case that runs the failover search
NeedsEvidence(ct) == ct = "text"

\* The feedback query answers; the switch on contentType runs to its first await
FeedbackReply(o) ==
  /\ pc = "feedback"
  /\ feedbackLearnings' = GetFeedbackLearnings(o)
  /\ feedbackRes' = IF o = "rows" THEN "rows" ELSE "norows"
  /\ \/ /\ NeedsEvidence(req.contentType)
        /\ IF NumKeys = 0
           THEN /\ Respond(Caught("No Search1API keys configured"))
                /\ UNCHANGED <<model, prompt, calls, i, searchLog>>
           ELSE ContinueLoop(0, FALSE, EmptyResults, <<>>)
        /\ UNCHANGED inserts
     \/ /\ req.contentType = "image"
        /\ IF req.fileData.k = "absent"
           THEN /\ Respond(Caught("Image data is required"))
                /\ UNCHANGED <<model, prompt, calls>>
           ELSE CallGateway("google/gemini-2.5-pro", <<>>)
        /\ UNCHANGED <<i, searchLog, inserts>>
     \/ /\ req.contentType = "audio"
        /\ IF req.fileData.k = "absent"
           THEN /\ Respond(Caught("Audio data is required"))
                /\ UNCHANGED <<model, prompt, calls>>
           ELSE IF req.fileData.k # "str"
           THEN /\ Respond(Caught("TypeError"))
                /\ UNCHANGED <<model, prompt, calls>>
           ELSE CallGateway(model, <<>>)
        /\ UNCHANGED <<i, searchLog, inserts>>
     \/ /\ req.contentType = "video"
        /\ IF req.fileData.k = "absent"
           THEN /\ Respond(Caught("Video data is required"))
                /\ UNCHANGED <<model, prompt, calls, inserts>>
           ELSE IF req.fileData.k # "str"
           THEN /\ Respond(Caught("TypeError"))
                /\ model' = "google/gemini-2.5-pro"
                /\ UNCHANGED <<prompt, calls, inserts>>
           ELSE IF Oversize(req.fileData)
           THEN /\ pc' = "oversizeInsert"
                /\ model' = "google/gemini-2.5-pro"
                /\ inserts' = Append(inserts, OversizeRow(req, user))
                /\ UNCHANGED <<prompt, calls, response>>
           ELSE /\ CallGateway("google/gemini-2.5-pro", <<>>)
                /\ UNCHANGED inserts
        /\ UNCHANGED <<i, searchLog>>
     \/ /\ req.contentType \notin ContentTypes
        /\ Respond(Caught("Invalid content type"))
        /\ UNCHANGED <<model, prompt, calls, i, searchLog, inserts>>
  /\ UNCHANGED <<env, req, user, searchResults, searchSuccess, apiKeyUsed, textApiKeyUsed,
                 authRes, gw, aiResponse, result, insertRes, records>>

\* SearchSucceeded that looks at the status alone
SearchSucceededOnStatus(o) == o.kind \in {"ok", "okBadBody"}

\* SearchSucceeded that takes every answer for a success
SearchSucceededAlways(o) == TRUE

\* SearchSucceeded that also wants a non-empty result list
SearchSucceededNonEmpty(o) == o.kind = "ok" /\ Len(o.results.items) > 0

\* the loop without its break
BreaksLoopNever(ok) == FALSE

\* if (searchResponse.ok) { searchData = await searchResponse.json(); ... }
SearchSucceeded(o) == o.kind = "ok"

\* the break of the success branch
BreaksLoop(ok) == ok

\* One search call answers: success ends the loop, anything else moves on
SearchReply(o) ==
  /\ pc = "search"
  /\ LET ok == SearchSucceeded(o)
         success == searchSuccess \/ ok
         results == IF ok THEN o.results ELSE searchResults
         log == [searchLog EXCEPT ![Len(searchLog)] =
                   [@ EXCEPT !.res = IF o.kind = "ok" THEN "ok" ELSE "failed",
                             !.results = o.results]]
     IN /\ searchSuccess' = success
        /\ searchResults' = results
        /\ textApiKeyUsed' = IF ok THEN i + 1 ELSE textApiKeyUsed
        /\ IF BreaksLoop(ok)
           THEN /\ i' = i
                /\ searchLog' = log
                /\ AfterLoop(success, results)
           ELSE ContinueLoop(i + 1, success, results, log)
  /\ UNCHANGED <<env, feedbackRes, req, user, feedbackLearnings, apiKeyUsed, authRes, gw, aiResponse,
                 result, inserts, insertRes, records>>

\* The gateway answers: the error branch, the envelope, the extraction, and
\* the row handed to the store
GatewayReply(o) ==
  /\ pc = "model"
  /\ gw' = [kind |-> o.kind, status |-> o.status, errorText |-> o.errorText]
  /\ IF o.kind = "throw"
     THEN /\ Respond(Caught("fetch"))
          /\ UNCHANGED <<aiResponse, result, inserts>>
     ELSE IF o.kind = "status"
     THEN /\ Respond(GatewayFailure(o.status, o.errorText))
          /\ UNCHANGED <<aiResponse, result, inserts>>
     ELSE IF o.kind \in {"okNotJson", "okNoChoices"}
     THEN /\ Respond(Caught("TypeError"))
          /\ UNCHANGED <<aiResponse, result, inserts>>
     ELSE /\ aiResponse' = o.content
          /\ result' = ExtractVerdict(o.content, o.fields)
          /\ inserts' = Append(inserts, AnalysisRow(req, user, result'))
          /\ pc' = "insert"
          /\ UNCHANGED response
  /\ UNCHANGED <<env, feedbackRes, req, user, feedbackLearnings, model, i, searchResults, searchSuccess,
                 apiKeyUsed, textApiKeyUsed, searchLog, prompt, calls, authRes,
                 insertRes, records>>

\* MainInsertResponse that never takes the id from insertData
MainInsertResponseNoId(o, id) ==
  VerdictResponse(req, result, NoId, apiKeyUsed)

\* MainInsertResponse without the try around the insert
MainInsertResponseUncaught(o, id) ==
  IF o = "throw" THEN Caught("insert")
  ELSE VerdictResponse(req, result, IF o = "ok" THEN id ELSE NoId, apiKeyUsed)

\* "Save analysis to database": a returned error and a thrown exception are
\* logged, analysisId stays null, and the verdict is returned
MainInsertResponse(o, id) ==
  VerdictResponse(req, result, IF o = "ok" THEN id ELSE NoId, apiKeyUsed)

\* the store adds the row under a generated id
Stored(o, row) ==
  IF o = "ok" THEN Append(records, [id |-> Len(records) + 1, row |-> row]) ELSE records

\* The store answers the insert of the main path
InsertReply(o) ==
  /\ pc = "insert"
  /\ o \in InsertOutcomes(inserts[Len(inserts)])
  /\ insertRes' = o
  /\ records' = Stored(o, inserts[Len(inserts)])
  /\ Respond(MainInsertResponse(o, Len(records) + 1))
  /\ UNCHANGED <<env, feedbackRes, req, user, feedbackLearnings, model, i, searchResults, searchSuccess,
                 apiKeyUsed, textApiKeyUsed, searchLog, prompt, calls, authRes, gw,
                 aiResponse, result, inserts>>

\* the oversize video branch awaits its insert outside any inner try: a thrown
\* exception reaches the outer catch, a returned error leaves insertData null
OversizeInsertResponse(o, id) ==
  IF o = "throw" THEN Caught("insert")
  ELSE OversizeResponse(IF o = "ok" THEN id ELSE NoId)

\* The store answers the insert of the oversize video branch
OversizeInsertReply(o) ==
  /\ pc = "oversizeInsert"
  /\ o \in InsertOutcomes(inserts[Len(inserts)])
  /\ insertRes' = o
  /\ records' = Stored(o, inserts[Len(inserts)])
  /\ Respond(OversizeInsertResponse(o, Len(records) + 1))
  /\ UNCHANGED <<env, feedbackRes, req, user, feedbackLearnings, model, i, searchResults, searchSuccess,
                 apiKeyUsed, textApiKeyUsed, searchLog, prompt, calls, authRes, gw,
                 aiResponse, result, inserts>>

\* The handler resumes at the await it is suspended on: each disjunct is the
\* answer of the service awaited at that position.
Next ==
  \/ pc = "idle" /\ (\E r \in Requests : Receive(r)) /\ UNCHANGED <<peer, dash, card>>
  \/ pc = "auth" /\ (\E o \in AuthOutcomes : AuthReply(o)) /\ UNCHANGED <<peer, dash, card>>
  \/ pc = "feedback" /\ (\E o \in FeedbackOutcomes : FeedbackReply(o))
        /\ UNCHANGED <<peer, dash, card>>
  \/ pc = "search" /\ (\E o \in SearchOutcomes(i + 1) : SearchReply(o))
        /\ UNCHANGED <<peer, dash, card>>
  \/ pc = "model" /\ (\E o \in GatewayOutcomes : GatewayReply(o))
        /\ UNCHANGED <<peer, dash, card>>
  \/ pc = "insert" /\ (\E o \in {"ok", "error", "throw"} : InsertReply(o))
        /\ UNCHANGED <<peer, dash, card>>
  \/ pc = "oversizeInsert" /\ (\E o \in {"ok", "error", "throw"} : OversizeInsertReply(o))
        /\ UNCHANGED <<peer, dash, card>>

Spec == Init /\ [][Next]_vars

-----------------------------------------------------------------------------
(* Properties *)

Done == pc = "done"
Verdict200 == Done /\ response.status = 200 /\ response.kind = "verdict"
InRange(a) == a.k = "int" /\ a.v >= 0 /\ a.v <= 100
ExhaustedMessage == "Failed to verify article - all API keys exhausted"
Authenticated == authRes.k = "answered" /\ ~authRes.threw /\ ~authRes.error /\ authRes.user # NoUser
NoSideCalls == calls.feedback = 0 /\ searchLog = <<>> /\ calls.model = 0 /\ inserts = <<>>

\* C1: the authenticity score of every 200 response body and of every row
\* handed to the result store is an integer in [0,100], whatever the model
\* returned.
C1_ScoreAlwaysInRange ==
  /\ Verdict200 => InRange(response.authenticity)
  /\ \A j \in 1..Len(inserts) : InRange(inserts[j].authenticity_score)

\* C2: when the gateway answers with text that holds no JSON object, or whose
\* candidate does not decode, the extracted verdict is exactly {50,
\* "suspicious", the raw text}, the handler goes on to the insert, and the
\* request is answered 200 with that verdict.
C2_FallbackOnUndecodableText ==
  (gw.kind = "ok" /\ aiResponse.k = "str" /\ ~Decodable(aiResponse.text)) =>
     /\ pc \in {"insert", "done"}
     /\ result = [authenticity |-> IntV(50), status |-> "suspicious",
                  details |-> [k |-> "raw", text |-> aiResponse.text]]
     /\ Done => /\ response.status = 200
                /\ response.kind = "verdict"
                /\ response.authenticity = IntV(50)
                /\ response.st = "suspicious"
                /\ response.details = [k |-> "raw", text |-> aiResponse.text]

C2_Witness ==
  /\ Done
  /\ gw.kind = "ok"
  /\ aiResponse.k = "str"
  /\ JsonMatch(aiResponse.text) # <<>>
  /\ ~JsonValid(JsonMatch(aiResponse.text))
  /\ response.status = 200

\* C3: the search credentials are attempted in list order, one at a time; no
\* credential is attempted after one has succeeded; the evidence in the
\* prompt of a text request is exactly the result set of the one successful
\* attempt.
C3_FailoverFirstSuccess ==
  /\ \A j \in 1..Len(searchLog) : searchLog[j].key = j
  /\ \A j \in 1..(Len(searchLog) - 1) : searchLog[j].res = "failed"
  /\ (prompt.built /\ req.contentType = "text") =>
        /\ Len(searchLog) >= 1
        /\ searchLog[Len(searchLog)].res = "ok"
        /\ prompt.evidence = searchLog[Len(searchLog)].results.items
        /\ \A j \in 1..Len(prompt.evidence) : prompt.evidence[j].src = Len(searchLog)

C3_Witness ==
  /\ prompt.built
  /\ req.contentType = "text"
  /\ Len(searchLog) = 2
  /\ NumKeys > 2
  /\ Len(prompt.evidence) >= 1
  /\ Done

AllCredentialsFailed ==
  /\ Len(searchLog) = NumKeys
  /\ \A j \in 1..NumKeys : searchLog[j].key = j /\ searchLog[j].res = "failed"

\* C4: a text request ends with the evidence-exhausted 500 exactly when every
\* credential was sent exactly one search call and every call failed; then the
\* gateway is never called and nothing is persisted.
C4_ExhaustedIffAllCredentialsFailed ==
  (Done /\ req.method = "POST" /\ req.bodyOk /\ req.contentType = "text") =>
     /\ (response.status = 500 /\ response.error = ExhaustedMessage) <=> AllCredentialsFailed
     /\ AllCredentialsFailed => (calls.model = 0 /\ inserts = <<>> /\ records = <<>>)

\* C5: an authenticated video request whose payload exceeds the size threshold
\* never calls the gateway and is answered 200 with authenticity 50, status
\* "suspicious" and the size-limitation text, after one insert of the fixed
\* record with score 50.
C5_OversizeVideoDegrades ==
  (Authenticated /\ req.contentType = "video" /\ req.fileData.k = "str"
     /\ EstimatedSize(req.fileData) > 2000000) =>
     /\ calls.model = 0
     /\ Done => /\ response.status = 200
                /\ response.authenticity = IntV(50)
                /\ response.st = "suspicious"
                /\ response.details = OversizeResponseDetails
                /\ Len(inserts) = 1
                /\ inserts[1].authenticity_score = IntV(50)
                /\ inserts[1].detailed_analysis = OversizeRecordDetails

\* C6: after a successful model call the outcome of the insert (success,
\* returned error, thrown exception) changes neither the status 200 nor a
\* verdict field of the body; analysisId is the generated id on success and
\* null otherwise.
C6_InsertOutcomeNotVisible ==
  (Done /\ gw.kind = "ok") =>
     /\ insertRes \in {"ok", "error", "throw"}
     /\ response.status = 200
     /\ response.kind = "verdict"
     /\ response.authenticity = result.authenticity
     /\ response.st = result.status
     /\ response.details = result.details
     /\ insertRes = "ok" => /\ Len(records) >= 1
                             /\ response.analysisId = records[Len(records)].id
                             /\ response.analysisId # NoId
     /\ insertRes # "ok" => response.analysisId = NoId

C6_Witness == Done /\ gw.kind = "ok" /\ insertRes = "throw" /\ response.status = 200

\* C7: every 200 response to an audio request has status "suspicious" and an
\* authenticity score between 40 and 65, whatever the model answered.
C7_AudioBand ==
  (Verdict200 /\ req.contentType = "audio") =>
     /\ response.st = "suspicious"
     /\ response.authenticity.k = "int"
     /\ response.authenticity.v >= 40
     /\ response.authenticity.v <= 65

RejectedByService == authRes.k = "answered" /\ ~authRes.threw /\ (authRes.error \/ authRes.user = NoUser)

C9_GatewayStatusMapping ==
  /\ calls.model <= 1
  /\ gw.kind = "status" =>
        /\ Done
        /\ response.status = (IF gw.status \in {429, 402} THEN gw.status ELSE 500)
        /\ calls.model = 1
        /\ inserts = <<>>
        /\ records = <<>>

C9_Witness == Done /\ gw.kind = "status" /\ gw.status = 402 /\ response.status = 402

AuthFailed == ~req.hasAuth \/ RejectedByService

\* C10 as stated: a non-preflight request is answered with a status other
\* than 200 only if configuration is missing, authentication failed, every
\* search credential failed, or the gateway returned a non-success status.
C10_Original ==
  (Done /\ req.method = "POST" /\ response.status # 200) =>
     \/ ~env.lovableKey
     \/ AuthFailed
     \/ response.error = ExhaustedMessage
     \/ gw.kind = "status"

\* a request body the handler throws on: not a JSON object, a contentType
\* outside the four, a media request without fileData, an audio or video
\* request whose fileData is no string, a text request whose content is no
\* string
InvalidBody ==
  \/ ~req.bodyOk
  \/ req.contentType \notin ContentTypes
  \/ req.contentType \in {"image", "audio", "video"} /\ req.fileData.k = "absent"
  \/ req.contentType \in {"audio", "video"} /\ req.fileData.k # "str"
  \/ req.contentType = "text" /\ req.content.k # "str"

\* an answer of an external service the handler throws on outside its local
\* try blocks
UncaughtExternalFailure ==
  \/ authRes.threw
  \/ Len(searchLog) >= 1 /\ searchLog[Len(searchLog)].res = "ok"
       /\ ~searchLog[Len(searchLog)].results.array
  \/ gw.kind \in {"throw", "okNotJson", "okNoChoices"}
  \/ pc = "done" /\ req.contentType = "video" /\ Len(inserts) = 1
       /\ inserts[1].content_preview = OversizePreview /\ insertRes = "throw"

\* C10 amended: a non-preflight request is answered with a status other than
\* 200 only if configuration is missing, authentication failed, every search
\* credential failed, the gateway returned a non-success status, the request
\* body is one the handler throws on, or an external service failed outside a
\* local try block (identity call threw, search results malformed, gateway
\* transport error or malformed envelope, oversize-video insert threw); on
\* every other path, whatever text the model returned, the answer is 200.
C10_Non200OnlyOnFatalPaths ==
  (Done /\ req.method = "POST" /\ response.status # 200) =>
     \/ ~env.lovableKey
     \/ AuthFailed
     \/ AllCredentialsFailed
     \/ gw.kind = "status"
     \/ InvalidBody
     \/ UncaughtExternalFailure

C10_Witness ==
  /\ Done
  /\ req.method = "POST"
  /\ gw.kind = "ok"
  /\ aiResponse.k = "str"
  /\ ~Decodable(aiResponse.text)
  /\ insertRes = "throw"
  /\ response.status = 200

StructuredJson == response.kind \in {"verdict", "error", "caught"}
NoNetworkCalls == calls.auth = 0 /\ NoSideCalls

\* C11 as stated: every request ends with one response whose status is one
\* of 200, 401, 402, 429, 500 and whose body is structured JSON.
C11_Original ==
  Done => (response.status \in {200, 401, 402, 429, 500} /\ StructuredJson)

\* C11 amended: every non-OPTIONS request ends with exactly one response
\* whose status is one of 200, 401, 402, 429, 500 and whose body is structured
\* JSON (an OPTIONS request is answered 200 with no body); the handler is
\* never stuck short of its response, whatever the external services answer
\* or throw, and once the response is returned nothing more happens.
C11_OneStructuredResponse ==
  /\ Done \/ ENABLED Next
  /\ Done => ~ENABLED Next
  /\ Done <=> response # NoResponse
  /\ (Done /\ req.method = "POST") =>
        /\ response.status \in {200, 401, 402, 429, 500}
        /\ StructuredJson
  /\ (Done /\ req.method = "OPTIONS") => response = PreflightResponse

C11_Witness ==
  /\ Done
  /\ req.method = "POST"
  /\ gw.kind = "status"
  /\ gw.status = 503
  /\ response.status = 500
  /\ response.kind = "caught"

\* C12: when the model gateway key is not configured every non-OPTIONS
\* request is answered 500 and no call of the identity service, feedback
\* store, search provider, model gateway or result store is made, with or
\* without an Authorization header.
C12_ConfigMissingBeforeAnyCall ==
  (~env.lovableKey /\ req.method = "POST") =>
     /\ Done
     /\ response.status = 500
     /\ response.kind = "caught"
     /\ NoNetworkCalls
     /\ records = <<>>

C12_Witness ==
  /\ ~env.lovableKey
  /\ req.method = "POST"
  /\ req.bodyOk
  /\ ~req.hasAuth
  /\ response.status = 500
  /\ response.error = "LOVABLE_API_KEY is not configured"

\* C13: when the gateway returns a non-success status other than 429 and 402
\* the 500 body sent to the caller does not depend on the upstream's
\* diagnostic text: the body returned is the body the handler returns for
\* every other diagnostic text with the same status.
C13_BodyIndependentOfDiagnostic ==
  (Done /\ gw.kind = "status" /\ gw.status \notin {429, 402}) =>
     /\ response.status = 500
     /\ \A t \in ErrorTexts : response = GatewayFailure(gw.status, t)

\* C14: the user_id of every row the handler hands to the store, and of
\* every stored record, is the id the identity service resolved from the
\* bearer token; the row built from any other request body has the same
\* user_id.
C14_RowOwnerIsResolvedUser ==
  /\ \A j \in DOMAIN inserts :
        /\ Authenticated
        /\ inserts[j].user_id = authRes.user
        /\ pc \in {"insert", "oversizeInsert"} =>
              \A r \in Requests :
                 /\ AnalysisRow(r, user, result).user_id = authRes.user
                 /\ OversizeRow(r, user).user_id = authRes.user
  /\ \A j \in DOMAIN records : records[j].row.user_id = authRes.user

C14_Witness ==
  /\ Done
  /\ Len(records) = 1
  /\ authRes.user = "u2"
  /\ records[1].row.user_id = "u2"
  /\ req.contentType = "image"

\* C15: the record set only holds rows the handler inserted, each request
\* attempts at most one insert, and a request that attempted an insert is
\* answered 200.
C15_OneInsertOnlyOn200Paths ==
  /\ Len(inserts) <= 1
  /\ Len(records) <= Len(inserts)
  /\ \A j \in DOMAIN records : records[j].row = inserts[j] /\ records[j].id = j
  /\ (Done /\ inserts # <<>>) => response.status = 200

FeedbackFailures == {"error", "empty", "throw"}
FeedbackFailed == feedbackRes = "norows"

\* the reasons other than feedback for which no model call has been made
\* after the feedback read
NoModelCallCause ==
  \/ pc = "search"
  \/ AllCredentialsFailed
  \/ InvalidBody
  \/ UncaughtExternalFailure
  \/ req.contentType = "video" /\ inserts # <<>>

\* C16: when the feedback store returns an error, returns no rows or throws,
\* the advisory text is empty, the request moves on past the feedback read,
\* a non-200 answer has a cause other than feedback, and the model call is
\* made unless something other than feedback prevents it.
C16_FeedbackFailureRecovered ==
  FeedbackFailed =>
     /\ feedbackLearnings = ""
     /\ \A o \in FeedbackFailures : GetFeedbackLearnings(o) = feedbackLearnings
     /\ pc # "feedback"
     /\ (Done /\ response.status # 200) =>
           \/ AllCredentialsFailed
           \/ gw.kind = "status"
           \/ InvalidBody
           \/ UncaughtExternalFailure
     /\ calls.model = 0 => NoModelCallCause

C16_Witness ==
  /\ FeedbackFailed
  /\ Verdict200
  /\ calls.model = 1
  /\ req.contentType = "audio"

LastSearchOk ==
  /\ searchLog # <<>>
  /\ searchLog[Len(searchLog)].res = "ok"

OversizePath ==
  /\ req.contentType = "video"
  /\ Len(inserts) = 1
  /\ inserts[1].content_preview = OversizePreview

\* C17: within one request the calls start in the order identity check,
\* feedback read, evidence search (text only), model call, store insert; a
\* call starts only when the one before it has been answered, none is made
\* twice except the search (once per credential), and the model is called
\* only after authentication and, for text, a search have succeeded.
C17_CallsInOrder ==
  /\ calls.auth <= 1 /\ calls.feedback <= 1 /\ calls.model <= 1
  /\ pc = "auth" => (calls.auth = 1 /\ NoSideCalls)
  /\ calls.feedback > 0 => (calls.auth = 1 /\ Authenticated)
  /\ pc = "feedback" =>
        (feedbackRes = "none" /\ searchLog = <<>> /\ calls.model = 0 /\ inserts = <<>>)
  /\ searchLog # <<>> =>
        (req.contentType = "text" /\ Authenticated /\ feedbackRes # "none")
  /\ \A j \in DOMAIN searchLog :
        searchLog[j].res = "pending" => (j = Len(searchLog) /\ pc = "search")
  /\ pc = "search" => (calls.model = 0 /\ inserts = <<>>)
  /\ calls.model > 0 =>
        /\ Authenticated
        /\ feedbackRes # "none"
        /\ req.contentType = "text" => LastSearchOk
  /\ pc = "model" => (gw = NoGateway /\ inserts = <<>>)
  /\ inserts # <<>> =>
        /\ Authenticated
        /\ feedbackRes # "none"
        /\ (calls.model = 1 /\ gw.kind = "ok") \/ (calls.model = 0 /\ OversizePath)
  /\ pc \in {"insert", "oversizeInsert"} => insertRes = "none"

C17_Witness ==
  /\ Done
  /\ req.contentType = "text"
  /\ Len(searchLog) = 2
  /\ searchLog[1].res = "failed"
  /\ LastSearchOk
  /\ calls.model = 1
  /\ insertRes = "ok"

LighterTier == "google/gemini-2.5-flash"
StrongerTier == "google/gemini-2.5-pro"

\* C18: the model identifier of every gateway call is the lighter tier for a
\* text or audio request and the stronger tier for an image or video request.
C18_ModelTierByContentType ==
  /\ req.contentType \in {"text", "audio"} => model = LighterTier
  /\ calls.model = 1 =>
        model = IF req.contentType \in {"image", "video"} THEN StrongerTier
                ELSE LighterTier

C18_Witness ==
  /\ calls.model = 1
  /\ req.contentType = "video"
  /\ model = StrongerTier
  /\ gw.kind = "ok"

\* C19: a request whose content type is not text never issues a search call,
\* never enters the failover loop and never fails for search exhaustion.
C19_SearchOnlyForText ==
  req.contentType # "text" =>
     /\ searchLog = <<>>
     /\ pc # "search"
     /\ i = 0
     /\ ~searchSuccess
     /\ textApiKeyUsed = 0
     /\ searchResults = EmptyResults
     /\ response.error # ExhaustedMessage
     /\ prompt.evidence = <<>>

C19_Witness ==
  /\ Verdict200
  /\ req.contentType = "image"
  /\ calls.model = 1
  /\ ~env.search1Key

\* C20: on the oversize-video path a store insert that returns an error or
\* throws leaves the answer at 200 with authenticity 50 and status suspicious.
C20_OversizeInsertFailureNotVisible ==
  (Done /\ OversizePath /\ insertRes \in {"error", "throw"}) =>
     /\ response.status = 200
     /\ response.authenticity = IntV(FallbackScore)
     /\ response.st = "suspicious"

\* the end of the first balanced object of t: the least index after the first
\* "{" at which the nesting opened there is closed again; 0 if there is none
FirstObjectEnd(t) ==
  LET a == FirstIndex(t, "{")
      Closes(b) == Depth(t, b) = Depth(t, a) - 1
  IN IF a > 0 /\ \E b \in (a+1)..Len(t) : Closes(b)
     THEN CHOOSE b \in (a+1)..Len(t) : Closes(b) /\ \A h \in (a+1)..(b-1) : ~Closes(h)
     ELSE 0

\* the first balanced top-level object of t, <<>> if there is none
FirstObject(t) ==
  IF FirstObjectEnd(t) > 0 THEN SubSeq(t, FirstIndex(t, "{"), FirstObjectEnd(t)) ELSE <<>>

HasDecodableFirstObject(t) == FirstObject(t) # <<>> /\ JsonValid(FirstObject(t))

\* C21: when the model's text contains a decodable balanced top-level object,
\* the extracted verdict is the decoding of the first such object and not the
\* fallback, whatever braces follow that object.
C21_FirstBalancedObjectDecoded ==
  (gw.kind = "ok" /\ aiResponse.k = "str" /\ HasDecodableFirstObject(aiResponse.text)) =>
     /\ result # Fallback(aiResponse)
     /\ \E f \in FieldVals \cup {NoFields} : result = Decode(FirstObject(aiResponse.text), f)

\* C22: the 200 answer to a text request carries apiKeyUsed, the 1-based
\* rank of the credential whose search call succeeded; the answers to image,
\* audio and video requests carry none.
C22_ResponseCarriesCredentialRank ==
  Verdict200 =>
     IF req.contentType = "text"
     THEN /\ LastSearchOk
          /\ response.apiKeyUsed = searchLog[Len(searchLog)].key
     ELSE response.apiKeyUsed = 0

-----------------------------------------------------------------------------
(* The consumers of a stored authenticity_score: the Dashboard page         *)
(* (src/pages/Dashboard.tsx) and the feedback advisor of the edge function. *)
(* One stored analysis is followed; its score is any value the table's      *)
(* CHECK constraint admits.                                                  *)

MinScore == 0
MaxScore == 100

ScoreFilters == {"all", "fake", "suspicious", "authentic"}

\* matchesScore of filteredAnalyses
matchesScore(scoreFilter, score) ==
  IF scoreFilter = "fake" THEN score < 30
  ELSE IF scoreFilter = "suspicious" THEN score >= 30 /\ score < 70
  ELSE IF scoreFilter = "authentic" THEN score >= 70
  ELSE TRUE

getStatusBadge(score) ==
  IF score >= 70 THEN "Authentic"
  ELSE IF score >= 30 THEN "Suspicious"
  ELSE "Fake"

\* getFeedbackLearnings: const wasReal = f.analysis_results?.authenticity_score > 70
wasReal(score) == score > 70

\* `AI said ${wasReal ? 'REAL' : 'FAKE'} ...`
FeedbackLabel(score) == IF wasReal(score) THEN "REAL" ELSE "FAKE"

DashInit ==
  /\ HandlerInit
  /\ env = [lovableKey |-> TRUE, search1Key |-> TRUE]
  /\ peer = NoPeer
  /\ card = NoCard
  /\ dash \in {[NoDash EXCEPT !.score = n] : n \in MinScore..MaxScore}

\* fetchAnalyses resolves and the list is rendered under the current filter
LoadAnalyses ==
  /\ ~dash.loaded
  /\ dash' = [dash EXCEPT !.loaded = TRUE,
                          !.listed = matchesScore(dash.scoreFilter, dash.score),
                          !.badge = getStatusBadge(dash.score)]
  /\ UNCHANGED <<env, locals, records, peer, card>>

\* the user picks a score filter; filteredAnalyses is computed again
SetScoreFilter(f) ==
  /\ dash.loaded
  /\ f # dash.scoreFilter
  /\ dash' = [dash EXCEPT !.scoreFilter = f, !.listed = matchesScore(f, dash.score)]
  /\ UNCHANGED <<env, locals, records, peer, card>>

\* a later request's getFeedbackLearnings reads the score of the corrected analysis
LabelFeedback ==
  /\ dash.label = "none"
  /\ dash' = [dash EXCEPT !.label = FeedbackLabel(dash.score)]
  /\ UNCHANGED <<env, locals, records, peer, card>>

DashNext ==
  \/ LoadAnalyses
  \/ \E f \in ScoreFilters : SetScoreFilter(f)
  \/ LabelFeedback

DashSpec == DashInit /\ [][DashNext]_vars

\* C23: the Dashboard badge, the Dashboard score filter and the feedback
\* advisor's label treat a stored score as authentic/real exactly when it is
\* at least 70, and badge and filter treat it as fake exactly when it is
\* below 30.
C23_ConsumersShareThresholds ==
  /\ dash.badge # "none" =>
        /\ dash.badge = "Authentic" <=> dash.score >= 70
        /\ dash.badge = "Fake" <=> dash.score < 30
  /\ (dash.loaded /\ dash.scoreFilter = "authentic") => (dash.listed <=> dash.score >= 70)
  /\ (dash.loaded /\ dash.scoreFilter = "fake") => (dash.listed <=> dash.score < 30)
  /\ dash.label # "none" => (dash.label = "REAL" <=> dash.score >= 70)

\* a text request whose content is a non-empty string
TextWithContent(r) == r.contentType = "text" /\ r.content.k = "str" /\ r.content.len > 0

\* C24: the content_preview of every row handed to the store is, for a text
\* request with content, the first 200 characters of the content, and for
\* every other request a placeholder that is the same whatever the fileData.
C24_PreviewTruncatedOrPlaceholder ==
  \A j \in DOMAIN inserts :
     LET pv == inserts[j].content_preview
     IN IF TextWithContent(req)
        THEN /\ pv.k = "text"
             /\ pv.len = Min(req.content.len, 200)
             /\ pv.len <= 200
        ELSE /\ pv.k \in {"placeholder", "oversize"}
             /\ pv.len = 0
             /\ pv.k = "placeholder" =>
                   \A f \in VideoFiles : ContentPreview([req EXCEPT !.fileData = f]) = pv

C24_Witness ==
  /\ Done
  /\ Len(records) = 1
  /\ req.content = Str(600)
  /\ records[1].row.content_preview = [k |-> "text", len |-> 200]

C24_WitnessShort ==
  /\ Done
  /\ Len(records) = 1
  /\ req.content = Str(100)
  /\ records[1].row.content_preview = [k |-> "text", len |-> 100]

\* C26: when a request is answered 200 and its insert succeeded, the stored
\* record is the row the handler built, its authenticity_score is the
\* authenticity of the response body and the response's analysisId is its id.
C26_RecordMatchesResponse ==
  (Done /\ response.status = 200 /\ insertRes = "ok") =>
     /\ Len(records) = 1
     /\ records[1].row = inserts[Len(inserts)]
     /\ records[1].row.authenticity_score = response.authenticity
     /\ response.analysisId = records[1].id
     /\ response.analysisId # NoId

C26_Witness ==
  /\ Verdict200
  /\ insertRes = "ok"
  /\ calls.model = 1
  /\ response.authenticity = IntV(100)
  /\ records[1].row.authenticity_score = IntV(100)
  /\ response.analysisId = 1

\* the base64 part of a fileData string: what follows the comma of a data
\* URI, the whole string when there is no comma
Base64Part(f) == IF f.comma THEN f.b64 ELSE f.pre

\* ceil(0.75 * n) > limit, for integers n and limit
EstimateExceeds(n, limit) == 3 * n > 4 * limit

\* a video request with string fileData that got past the feedback read
VideoSized ==
  /\ req.contentType = "video"
  /\ req.fileData.k = "str"
  /\ feedbackRes # "none"

\* C28: the oversize short-circuit is taken exactly when
\* ceil(0.75 * length of the base64 part) is strictly greater than 2,000,000;
\* at an estimate of exactly 2,000,000 the model is called.
C28_OversizeExactlyAboveLimit ==
  VideoSized =>
     IF EstimateExceeds(Base64Part(req.fileData), 2000000)
     THEN OversizePath /\ calls.model = 0
     ELSE calls.model = 1 /\ (pc = "model" => inserts = <<>>)
          /\ \A j \in DOMAIN inserts : inserts[j].content_preview # OversizePreview

C28_Witness ==
  /\ VideoSized
  /\ Base64Part(req.fileData) = 2666666
  /\ EstimatedSize(req.fileData) = 2000000
  /\ calls.model = 1
  /\ Verdict200

\* an authenticated request the switch rejects: a media type without
\* fileData, or a contentType outside the four
RejectedBySwitch ==
  /\ Authenticated
  /\ feedbackRes # "none"
  /\ \/ req.contentType \in {"image", "audio", "video"} /\ req.fileData.k = "absent"
     \/ req.contentType \notin ContentTypes

\* C29: an authenticated image, audio or video request without fileData and
\* an authenticated request with a contentType outside the four are answered
\* 500 with the error-shaped body (authenticity 0, status "error"), without a
\* model call and without an insert.
C29_MissingMediaOrBadTypeIs500 ==
  RejectedBySwitch =>
     /\ Done
     /\ response.status = 500
     /\ response.authenticity = IntV(0)
     /\ response.st = "error"
     /\ response.error \in {"Image data is required", "Audio data is required",
                            "Video data is required", "Invalid content type"}
     /\ calls.model = 0
     /\ searchLog = <<>>
     /\ inserts = <<>>
     /\ records = <<>>

C29_Witness ==
  /\ RejectedBySwitch
  /\ req.contentType = "audio"
  /\ response.error = "Audio data is required"
  /\ response.status = 500

-----------------------------------------------------------------------------
(* Text requests against a search provider that answers every call with a   *)
(* success status, with a body that decodes or does not: every failed        *)
(* attempt of these behaviours is an undecodable body.                       *)

TextRequests == {r \in Requests : r.method = "POST" /\ r.contentType = "text" /\ r.hasAuth}

\* searchResponse.ok holds for every answer
OkStatusSearchOutcomes(key) == {o \in SearchOutcomes(key) : o.kind \in {"ok", "okBadBody"}}

\* gateway answers with at most one token of content
ShortGatewayOutcomes ==
  {o \in GatewayOutcomes : o.content.k = "null" \/ Len(o.content.text) <= 1}

BadBodyNext ==
  \/ pc = "idle" /\ (\E r \in TextRequests : Receive(r)) /\ UNCHANGED <<peer, dash, card>>
  \/ pc = "auth" /\ (\E o \in AuthOutcomes : AuthReply(o)) /\ UNCHANGED <<peer, dash, card>>
  \/ pc = "feedback" /\ (\E o \in FeedbackOutcomes : FeedbackReply(o))
        /\ UNCHANGED <<peer, dash, card>>
  \/ pc = "search" /\ (\E o \in OkStatusSearchOutcomes(i + 1) : SearchReply(o))
        /\ UNCHANGED <<peer, dash, card>>
  \/ pc = "model" /\ (\E o \in ShortGatewayOutcomes : GatewayReply(o))
        /\ UNCHANGED <<peer, dash, card>>
  \/ pc = "insert" /\ (\E o \in {"ok", "error", "throw"} : InsertReply(o))
        /\ UNCHANGED <<peer, dash, card>>

BadBodySpec == Init /\ [][BadBodyNext]_vars

\* C27: a search call answered with a success status and an undecodable body
\* is a failed attempt of its credential: the next credential is tried, and
\* after the last one the request ends with the exhaustion error, never with
\* the decoding error; no model call is made on the strength of such a call.
C27_UndecodableSearchBodyFailsOver ==
  \A j \in DOMAIN searchLog :
     searchLog[j].res = "failed" =>
        /\ j < NumKeys => (Len(searchLog) > j /\ searchLog[j + 1].key = j + 1)
        /\ j = NumKeys =>
              (Done /\ response.status = 500 /\ response.error = ExhaustedMessage)
        /\ j = Len(searchLog) => (calls.model = 0 /\ ~searchSuccess)
        /\ calls.model > 0 => LastSearchOk

C27_Witness ==
  /\ Len(searchLog) = 2
  /\ searchLog[1].res = "failed"
  /\ searchLog[2].res = "ok"
  /\ textApiKeyUsed = 2
  /\ Verdict200

-----------------------------------------------------------------------------
(* The DetectionCard component: its four useState cells and the onAnalyze   *)
(* calls it has pending.  A React event handler runs to its first await and *)
(* the state it set is rendered before the next event is delivered, so a    *)
(* click, a change and the settling of onAnalyze are one step each.          *)

\* most onAnalyze calls pending at once that are followed
MaxInFlight == 2

CardTexts == {"", "article"}

\* what onAnalyze can resolve to
AnalysisResults ==
  {[k |-> "value", authenticity |-> a, status |-> st] :
      a \in {10, 50, 90}, st \in {"authentic", "suspicious", "fake"}}

CardInit ==
  /\ HandlerInit
  /\ env = [lovableKey |-> TRUE, search1Key |-> TRUE]
  /\ peer = NoPeer
  /\ dash = NoDash
  /\ card \in {[NoCard EXCEPT !.contentType = ct, !.showTextInput = b] :
                  ct \in ContentTypes, b \in BOOLEAN}

\* ButtonDisabled that forgets the analyzing flag
ButtonDisabledWhenEmptyOnly == ~card.file /\ card.textInput = ""

\* disabled={analyzing || (!file && !textInput)}
ButtonDisabled == card.analyzing \/ (~card.file /\ card.textInput = "")

\* handleFileChange with a file chosen
HandleFileChange ==
  /\ ~card.showTextInput
  /\ card' = [card EXCEPT !.file = TRUE, !.result = NoCardResult]
  /\ UNCHANGED <<env, locals, records, peer, dash>>

\* onChange of the textarea
TextChange(v) ==
  /\ card.showTextInput
  /\ v # card.textInput
  /\ card' = [card EXCEPT !.textInput = v]
  /\ UNCHANGED <<env, locals, records, peer, dash>>

\* a click on the Analyze button runs handleAnalyze up to its await
HandleAnalyze ==
  /\ ~ButtonDisabled
  /\ card.inFlight < MaxInFlight
  /\ card' = IF ~card.file /\ card.textInput = "" THEN card
             ELSE [card EXCEPT !.analyzing = TRUE, !.inFlight = @ + 1]
  /\ UNCHANGED <<env, locals, records, peer, dash>>

\* onAnalyze resolves: setResult, then the finally block
OnAnalyzeResolves(r) ==
  /\ card.inFlight > 0
  /\ card' = [card EXCEPT !.result = r, !.analyzing = FALSE, !.inFlight = @ - 1]
  /\ UNCHANGED <<env, locals, records, peer, dash>>

\* onAnalyze rejects: the catch logs, then the finally block
OnAnalyzeRejects ==
  /\ card.inFlight > 0
  /\ card' = [card EXCEPT !.analyzing = FALSE, !.inFlight = @ - 1]
  /\ UNCHANGED <<env, locals, records, peer, dash>>

CardNext ==
  \/ HandleFileChange
  \/ \E v \in CardTexts : TextChange(v)
  \/ HandleAnalyze
  \/ \E r \in AnalysisResults : OnAnalyzeResolves(r)
  \/ OnAnalyzeRejects

CardSpec == CardInit /\ [][CardNext]_vars

\* C30: in DetectionCard the analyzing flag is true exactly while a call of
\* onAnalyze is pending, at most one call is pending, and while the flag is
\* true the Analyze button is disabled and no click can start an analysis.
C30_AnalyzingIffInFlight ==
  /\ card.analyzing <=> card.inFlight > 0
  /\ card.inFlight <= 1
  /\ card.analyzing => (ButtonDisabled /\ ~ENABLED HandleAnalyze)

C30_Witness ==
  /\ card.analyzing
  /\ card.inFlight = 1
  /\ card.result.k = "value"
  /\ card.file

C30_WitnessAfterReject ==
  /\ ~card.analyzing
  /\ card.inFlight = 0
  /\ card.result.k = "null"
  /\ card.textInput = "article"

-----------------------------------------------------------------------------
(* Two requests handled by one isolate.  Each invocation of the handler has *)
(* its own locals; the event loop runs one continuation at a time and may    *)
(* resume the other invocation at every await.  The variables hold the       *)
(* locals of the invocation that runs, peer those of the suspended one; the  *)
(* table and the configuration are shared.                                   *)

\* the locals of the running invocation, as they are kept while it is suspended
Parked ==
  [pc |-> pc, req |-> req, user |-> user,
   feedbackLearnings |-> feedbackLearnings, feedbackRes |-> feedbackRes,
   model |-> model, i |-> i, searchResults |-> searchResults,
   searchSuccess |-> searchSuccess, apiKeyUsed |-> apiKeyUsed,
   textApiKeyUsed |-> textApiKeyUsed, searchLog |-> searchLog,
   prompt |-> prompt, calls |-> calls, authRes |-> authRes, gw |-> gw,
   aiResponse |-> aiResponse, result |-> result, inserts |-> inserts,
   insertRes |-> insertRes, response |-> response]

ConcRequests ==
  {Post("text", Str(600), NoFile, TRUE),
   Post("image", Absent, DataUri(1000), TRUE),
   Post("video", Absent, DataUri(2666667), TRUE)}

ConcAuthOutcomes == {o \in AuthOutcomes : ~o.threw /\ ~o.error /\ o.user # NoUser}

ConcSearchOutcomes(key) ==
  {[kind |-> "ok", results |-> ResultSet(key, 1)], [kind |-> "status", results |-> EmptyResults]}

ConcGatewayOutcomes ==
  {o \in GatewayOutcomes :
      \/ o.kind = "status" /\ o.status = 500 /\ o.errorText = "upstream diagnostic A"
      \/ o.kind = "ok" /\ o.content = StrContent(<<"w">>)
      \/ o.kind = "ok" /\ o.content = StrContent(<<"{", "f", "}">>)
           /\ o.fields = [authenticity |-> IntV(100), status |-> "authentic"]}

ConcInit ==
  /\ HandlerInit
  /\ env = [lovableKey |-> TRUE, search1Key |-> TRUE]
  /\ peer = Parked
  /\ dash = NoDash
  /\ card = NoCard

\* Switch with `user` kept in one place for both invocations
SwitchSharingUser ==
  /\ peer # Parked
  /\ pc' = peer.pc
  /\ req' = peer.req
  /\ user' = user
  /\ feedbackLearnings' = peer.feedbackLearnings
  /\ feedbackRes' = peer.feedbackRes
  /\ model' = peer.model
  /\ i' = peer.i
  /\ searchResults' = peer.searchResults
  /\ searchSuccess' = peer.searchSuccess
  /\ apiKeyUsed' = peer.apiKeyUsed
  /\ textApiKeyUsed' = peer.textApiKeyUsed
  /\ searchLog' = peer.searchLog
  /\ prompt' = peer.prompt
  /\ calls' = peer.calls
  /\ authRes' = peer.authRes
  /\ gw' = peer.gw
  /\ aiResponse' = peer.aiResponse
  /\ result' = peer.result
  /\ inserts' = peer.inserts
  /\ insertRes' = peer.insertRes
  /\ response' = peer.response
  /\ peer' = Parked
  /\ UNCHANGED <<env, records, dash, card>>

\* the running invocation is suspended at its await and the other one resumes
Switch ==
  /\ peer # Parked
  /\ pc' = peer.pc
  /\ req' = peer.req
  /\ user' = peer.user
  /\ feedbackLearnings' = peer.feedbackLearnings
  /\ feedbackRes' = peer.feedbackRes
  /\ model' = peer.model
  /\ i' = peer.i
  /\ searchResults' = peer.searchResults
  /\ searchSuccess' = peer.searchSuccess
  /\ apiKeyUsed' = peer.apiKeyUsed
  /\ textApiKeyUsed' = peer.textApiKeyUsed
  /\ searchLog' = peer.searchLog
  /\ prompt' = peer.prompt
  /\ calls' = peer.calls
  /\ authRes' = peer.authRes
  /\ gw' = peer.gw
  /\ aiResponse' = peer.aiResponse
  /\ result' = peer.result
  /\ inserts' = peer.inserts
  /\ insertRes' = peer.insertRes
  /\ response' = peer.response
  /\ peer' = Parked
  /\ UNCHANGED <<env, records, dash, card>>

ConcNext ==
  \/ pc = "idle" /\ (\E r \in ConcRequests : Receive(r)) /\ UNCHANGED <<peer, dash, card>>
  \/ pc = "auth" /\ (\E o \in ConcAuthOutcomes : AuthReply(o)) /\ UNCHANGED <<peer, dash, card>>
  \/ pc = "feedback" /\ (\E o \in {"rows", "empty"} : FeedbackReply(o))
        /\ UNCHANGED <<peer, dash, card>>
  \/ pc = "search" /\ (\E o \in ConcSearchOutcomes(i + 1) : SearchReply(o))
        /\ UNCHANGED <<peer, dash, card>>
  \/ pc = "model" /\ (\E o \in ConcGatewayOutcomes : GatewayReply(o))
        /\ UNCHANGED <<peer, dash, card>>
  \/ pc = "insert" /\ (\E o \in {"ok", "error", "throw"} : InsertReply(o))
        /\ UNCHANGED <<peer, dash, card>>
  \/ pc = "oversizeInsert" /\ (\E o \in {"ok", "error", "throw"} : OversizeInsertReply(o))
        /\ UNCHANGED <<peer, dash, card>>
  \/ Switch

ConcSpec == ConcInit /\ [][ConcNext]_vars

\* the id the store gave to the row of invocation l, NoId if it stored none
OwnId(l) ==
  IF l.insertRes = "ok" /\ \E n \in DOMAIN records : records[n].row = l.inserts[1]
                                                       /\ records[n].id = l.response.analysisId
  THEN l.response.analysisId
  ELSE NoId

\* the response of a finished invocation l as its own request and the answers
\* it received determine it
OwnResponse(l) ==
  IF l.inserts # <<>> /\ l.inserts[1].content_preview = OversizePreview
  THEN OversizeInsertResponse(l.insertRes, OwnId(l))
  ELSE IF l.inserts # <<>>
  THEN VerdictResponse(l.req, l.result, OwnId(l), 0)
  ELSE IF l.gw.kind = "status"
  THEN GatewayFailure(l.gw.status, l.gw.errorText)
  ELSE Caught(ExhaustedMessage)

\* every local of invocation l follows from l's own request and answers
OwnLocalsOnly(l) ==
  /\ l.user \in {NoUser, l.authRes.user}
  /\ l.pc \notin {"idle", "auth"} => l.user = l.authRes.user
  /\ l.feedbackLearnings = (IF l.feedbackRes = "rows" THEN GetFeedbackLearnings("rows") ELSE "")
  /\ l.calls.model = 1 =>
        /\ l.model = (IF l.req.contentType = "text" THEN LighterTier ELSE StrongerTier)
        /\ l.prompt.evidence =
              (IF l.req.contentType = "text"
               THEN l.searchLog[Len(l.searchLog)].results.items ELSE <<>>)
  /\ \A j \in DOMAIN l.searchLog :
        l.searchLog[j].res = "ok" => l.searchLog[j].results = ResultSet(j, 1)
  /\ l.gw.kind = "ok" =>
        \E f \in FieldVals \cup {NoFields} : l.result = ExtractVerdict(l.aiResponse, f)
  /\ \A j \in DOMAIN l.inserts :
        l.inserts[j] \in {AnalysisRow(l.req, l.authRes.user, l.result),
                          OversizeRow(l.req, l.authRes.user)}
  /\ l.pc = "done" =>
        /\ l.response = OwnResponse(l)
        /\ l.insertRes = "ok" => OwnId(l) # NoId

\* C25: with two requests interleaved at their awaits in any order, the
\* locals, the inserted row and the response of each are those its own request
\* and the answers it received determine, as when it runs alone; every stored
\* record is the row of one of the two.
C25_RequestsDoNotInterfere ==
  /\ OwnLocalsOnly(Parked)
  /\ OwnLocalsOnly(peer)
  /\ \A n \in DOMAIN records :
        /\ records[n].id = n
        /\ \/ inserts # <<>> /\ records[n].row = inserts[1]
           \/ peer.inserts # <<>> /\ records[n].row = peer.inserts[1]

C25_Witness ==
  /\ pc = "done"
  /\ peer.pc = "done"
  /\ req.contentType = "text"
  /\ peer.req.contentType = "image"
  /\ authRes.user = "u1"
  /\ peer.authRes.user = "u2"
  /\ Len(records) = 2
  /\ records[1].row.user_id = "u2"
  /\ records[2].row.user_id = "u1"
  /\ response.analysisId = 2
  /\ peer.response.analysisId = 1
  /\ Len(searchLog) = 2

====
